---- MODULE Spec2Model ----
(***************************************************************************)
(* The recursive-descent parser of src/main.rs (Advent of Code 2017, day   *)
(* 9) and its metrics.  The Rust call stack of garbage()/group() is kept   *)
(* explicitly in `stack`; one action is one iteration of a `while let`     *)
(* loop, one call, or one return.  Characters are Unicode scalar values    *)
(* (Rust `char`), a String is its sequence of UTF-8 bytes.                 *)
(***************************************************************************)
EXTENDS Integers, Sequences, FiniteSets, TLC

VARIABLES src, pos, stack, ret, result, pc, last

vars == <<src, pos, stack, ret, result, pc, last>>

(* Longest input text the model enumerates. *)
MaxLen == 5

(* The characters the parser matches on, as code points. *)
LAngle == 60
RAngle == 62
LBrace == 123
RBrace == 125
Bang == 33

(* The alphabet of the inputs: the five structural characters, the ASCII   *)
(* letter 'a' (97) and the two-byte letter U+00E9 (233).                   *)
Chars == {LAngle, RAngle, LBrace, RBrace, Bang, 97, 233}

Inputs == UNION {[1..n -> Chars] : n \in 0..MaxLen}

(* ------------------------------ values ------------------------------- *)

None == [tag |-> "None"]

Group(children) == [tag |-> "Group", children |-> children]

Garbage(string) == [tag |-> "Garbage", string |-> string]

Ok(ast) == [tag |-> "Ok", ast |-> ast]

ParseError(message) == [tag |-> "Err", message |-> message]

ParseError_result(msg) == ParseError([text |-> msg, args |-> <<>>])

ParseError_format(msg, c) == ParseError([text |-> msg, args |-> <<c>>])

(* String::push(c): the UTF-8 encoding of c is appended. *)
Utf8(c) ==
    IF c < 128 THEN <<c>>
    ELSE IF c < 2048 THEN <<192 + (c \div 64), 128 + (c % 64)>>
    ELSE IF c < 65536
         THEN <<224 + (c \div 4096), 128 + ((c \div 64) % 64), 128 + (c % 64)>>
         ELSE <<240 + (c \div 262144), 128 + ((c \div 4096) % 64),
                128 + ((c \div 64) % 64), 128 + (c % 64)>>

RECURSIVE SumSeq(_)
SumSeq(s) == IF s = <<>> THEN 0 ELSE Head(s) + SumSeq(Tail(s))

(* ------------------------------ metrics ------------------------------ *)

RECURSIVE count_groups(_)
count_groups(node) ==
    IF node.tag = "Group"
    THEN 1 + SumSeq([i \in 1..Len(node.children) |-> count_groups(node.children[i])])
    ELSE 0

(* depths with the depth not increased on the way down. *)
RECURSIVE depths_SameDepth(_, _)
depths_SameDepth(node, i) ==
    IF node.tag = "Group"
    THEN i + SumSeq([k \in 1..Len(node.children) |->
                        depths_SameDepth(node.children[k], i)])
    ELSE 0

RECURSIVE depths(_, _)
depths(node, i) ==
    IF node.tag = "Group"
    THEN i + SumSeq([k \in 1..Len(node.children) |-> depths(node.children[k], i + 1)])
    ELSE 0

(* The top-level group counted from depth 0. *)
score_FromZero(node) == depths(node, 0)

score(node) == depths(node, 1)

RECURSIVE garbage_len(_)
garbage_len(node) ==
    IF node.tag = "Garbage"
    THEN Len(node.string)
    ELSE SumSeq([i \in 1..Len(node.children) |-> garbage_len(node.children[i])])

(* --------------------------- the call stack -------------------------- *)

GarbageFrame(string) == [fn |-> "garbage", string |-> string]

GroupFrame(children) == [fn |-> "group", children |-> children]

Top == stack[Len(stack)]

Pop == SubSeq(stack, 1, Len(stack) - 1)

ReplaceTop(frame) == [stack EXCEPT ![Len(stack)] = frame]

(* iter.next(): Some(Cur) while HasNext, None afterwards. *)
HasNext == pos < Len(src)

Cur == src[pos + 1]

(* parse with no arm for the other characters. *)
ParseArm_NoDefault(c) ==
    IF c = LAngle THEN "garbage" ELSE "group"

(* The arms of the three `match` expressions. *)
ParseArm(c) ==
    IF c = LAngle THEN "garbage" ELSE IF c = LBrace THEN "group" ELSE "unexpected"

(* garbage that takes '}' for a terminator too. *)
GarbageArm_BraceCloses(c) ==
    IF c = Bang THEN "escape" ELSE IF c \in {RAngle, RBrace} THEN "close" ELSE "push"

GarbageArm(c) ==
    IF c = Bang THEN "escape" ELSE IF c = RAngle THEN "close" ELSE "push"

(* group with no arm for '{': a nested group is not entered. *)
GroupArm_NoNesting(c) ==
    IF c = LAngle THEN "garbage" ELSE IF c = RBrace THEN "close" ELSE "skip"

GroupArm(c) ==
    IF c = LAngle THEN "garbage"
    ELSE IF c = LBrace THEN "group"
    ELSE IF c = RBrace THEN "close" ELSE "skip"

(* ------------------------------- parse ------------------------------- *)

Init ==
    /\ src \in Inputs
    /\ pos = 0
    /\ stack = <<>>
    /\ ret = None
    /\ result = None
    /\ pc = "parse"
    /\ last = None

ParseEmpty ==
    /\ pc = "parse"
    /\ ~HasNext
    /\ result' = ParseError_result("expected non-empty string")
    /\ pc' = "done"
    /\ UNCHANGED <<src, pos, stack, ret, last>>

ParseGarbage ==
    /\ pc = "parse"
    /\ HasNext
    /\ ParseArm(Cur) = "garbage"
    /\ pos' = pos + 1
    /\ stack' = <<GarbageFrame(<<>>)>>
    /\ pc' = "run"
    /\ UNCHANGED <<src, ret, result, last>>

ParseGroup ==
    /\ pc = "parse"
    /\ HasNext
    /\ ParseArm(Cur) = "group"
    /\ pos' = pos + 1
    /\ stack' = <<GroupFrame(<<>>)>>
    /\ pc' = "run"
    /\ UNCHANGED <<src, ret, result, last>>

ParseUnexpected ==
    /\ pc = "parse"
    /\ HasNext
    /\ ParseArm(Cur) = "unexpected"
    /\ pos' = pos + 1
    /\ result' = ParseError_format("expected '<' or '{', found {:?}", Cur)
    /\ pc' = "done"
    /\ UNCHANGED <<src, stack, ret, last>>

(* parse that takes characters left after the construct for an error. *)
ParseReturn_RejectTrailing ==
    /\ pc = "run"
    /\ stack = <<>>
    /\ ret # None
    /\ result' = IF ret.tag = "Ok" /\ HasNext
                 THEN ParseError_result("unexpected characters after the end")
                 ELSE ret
    /\ ret' = None
    /\ pc' = "done"
    /\ UNCHANGED <<src, pos, stack, last>>

(* parse returns what the garbage or group call it made returned. *)
ParseReturn ==
    /\ pc = "run"
    /\ stack = <<>>
    /\ ret # None
    /\ result' = ret
    /\ ret' = None
    /\ pc' = "done"
    /\ UNCHANGED <<src, pos, stack, last>>

(* ------------------------------ garbage ------------------------------ *)

InGarbage ==
    /\ pc = "run"
    /\ stack # <<>>
    /\ Top.fn = "garbage"
    /\ ret = None

(* The escape marker skipped, the character after it read as any other. *)
GarbageEscape_MarkerOnly ==
    /\ InGarbage
    /\ HasNext
    /\ GarbageArm(Cur) = "escape"
    /\ pos + 1 < Len(src)
    /\ pos' = pos + 1
    /\ UNCHANGED <<src, stack, ret, result, pc, last>>

GarbageEscape ==
    /\ InGarbage
    /\ HasNext
    /\ GarbageArm(Cur) = "escape"
    /\ pos + 1 < Len(src)
    /\ pos' = pos + 2
    /\ UNCHANGED <<src, stack, ret, result, pc, last>>

(* A marker at the end of the text that is not checked for. *)
GarbageDangling_Unchecked ==
    /\ InGarbage
    /\ HasNext
    /\ GarbageArm(Cur) = "escape"
    /\ pos + 1 = Len(src)
    /\ pos' = pos + 1
    /\ UNCHANGED <<src, stack, ret, result, pc, last>>

GarbageDangling ==
    /\ InGarbage
    /\ HasNext
    /\ GarbageArm(Cur) = "escape"
    /\ pos + 1 = Len(src)
    /\ pos' = pos + 1
    /\ stack' = Pop
    /\ ret' = ParseError_result("unexpected end of string after '!'")
    /\ UNCHANGED <<src, result, pc, last>>

GarbageClose ==
    /\ InGarbage
    /\ HasNext
    /\ GarbageArm(Cur) = "close"
    /\ pos' = pos + 1
    /\ stack' = Pop
    /\ ret' = Ok(Garbage(Top.string))
    /\ UNCHANGED <<src, result, pc, last>>

GarbagePush ==
    /\ InGarbage
    /\ HasNext
    /\ GarbageArm(Cur) = "push"
    /\ pos' = pos + 1
    /\ stack' = ReplaceTop(GarbageFrame(Top.string \o Utf8(Cur)))
    /\ UNCHANGED <<src, ret, result, pc, last>>

GarbageUnterminated ==
    /\ InGarbage
    /\ ~HasNext
    /\ stack' = Pop
    /\ ret' = ParseError_result("unterminated '<'")
    /\ UNCHANGED <<src, pos, result, pc, last>>

(* ------------------------------- group ------------------------------- *)

InGroup ==
    /\ pc = "run"
    /\ stack # <<>>
    /\ Top.fn = "group"
    /\ ret = None

GroupGarbage ==
    /\ InGroup
    /\ HasNext
    /\ GroupArm(Cur) = "garbage"
    /\ pos' = pos + 1
    /\ stack' = Append(stack, GarbageFrame(<<>>))
    /\ UNCHANGED <<src, ret, result, pc, last>>

GroupGroup ==
    /\ InGroup
    /\ HasNext
    /\ GroupArm(Cur) = "group"
    /\ pos' = pos + 1
    /\ stack' = Append(stack, GroupFrame(<<>>))
    /\ UNCHANGED <<src, ret, result, pc, last>>

GroupClose ==
    /\ InGroup
    /\ HasNext
    /\ GroupArm(Cur) = "close"
    /\ pos' = pos + 1
    /\ stack' = Pop
    /\ ret' = Ok(Group(Top.children))
    /\ UNCHANGED <<src, result, pc, last>>

(* The ignored character looked at but not consumed. *)
GroupSkip_NoAdvance ==
    /\ InGroup
    /\ HasNext
    /\ GroupArm(Cur) = "skip"
    /\ UNCHANGED vars

(* '!' taken for an escape marker outside garbage as well. *)
GroupSkip_BangEscapes ==
    /\ InGroup
    /\ HasNext
    /\ GroupArm(Cur) = "skip"
    /\ pos' = IF Cur = Bang /\ pos + 1 < Len(src) THEN pos + 2 ELSE pos + 1
    /\ UNCHANGED <<src, stack, ret, result, pc, last>>

GroupSkip ==
    /\ InGroup
    /\ HasNext
    /\ GroupArm(Cur) = "skip"
    /\ pos' = pos + 1
    /\ UNCHANGED <<src, stack, ret, result, pc, last>>

GroupUnterminated ==
    /\ InGroup
    /\ ~HasNext
    /\ stack' = Pop
    /\ ret' = ParseError_result("unterminated '{'")
    /\ UNCHANGED <<src, pos, result, pc, last>>

(* The child put in front of the children collected so far. *)
GroupChild_Prepend ==
    /\ pc = "run"
    /\ stack # <<>>
    /\ Top.fn = "group"
    /\ ret.tag = "Ok"
    /\ stack' = ReplaceTop(GroupFrame(<<ret.ast>> \o Top.children))
    /\ ret' = None
    /\ UNCHANGED <<src, pos, result, pc, last>>

(* children.push(x?) with x = Ok(node): the node is appended. *)
GroupChild ==
    /\ pc = "run"
    /\ stack # <<>>
    /\ Top.fn = "group"
    /\ ret.tag = "Ok"
    /\ stack' = ReplaceTop(GroupFrame(Append(Top.children, ret.ast)))
    /\ ret' = None
    /\ UNCHANGED <<src, pos, result, pc, last>>

(* The child's error dropped, the loop of the group going on. *)
GroupTry_Swallow ==
    /\ pc = "run"
    /\ stack # <<>>
    /\ Top.fn = "group"
    /\ ret.tag = "Err"
    /\ ret' = None
    /\ UNCHANGED <<src, pos, stack, result, pc, last>>

(* children.push(x?) with x = Err(e): `?` returns Err(e) from group. *)
GroupTry ==
    /\ pc = "run"
    /\ stack # <<>>
    /\ Top.fn = "group"
    /\ ret.tag = "Err"
    /\ stack' = Pop
    /\ UNCHANGED <<src, pos, ret, result, pc, last>>

Next ==
    \/ ParseEmpty
    \/ ParseGarbage
    \/ ParseGroup
    \/ ParseUnexpected
    \/ ParseReturn
    \/ GarbageEscape
    \/ GarbageDangling
    \/ GarbageClose
    \/ GarbagePush
    \/ GarbageUnterminated
    \/ GroupGarbage
    \/ GroupGroup
    \/ GroupClose
    \/ GroupSkip
    \/ GroupUnterminated
    \/ GroupChild
    \/ GroupTry

Spec == Init /\ [][Next]_vars

(* parse runs to its return: the program is sequential. *)
FairSpec == Spec /\ WF_vars(Next)

(* ---------------------- reference reading of a text ------------------ *)
(* What the grammar says about a text, read character by character with  *)
(* no call stack: the mode reached after the first n characters and the  *)
(* number of groups then open.                                           *)

RECURSIVE Lex(_, _)
Lex(s, n) ==
    IF n = 0 THEN [mode |-> "start", depth |-> 0]
    ELSE LET p == Lex(s, n - 1)
             c == s[n]
         IN  CASE p.mode = "start" ->
                    IF c = LAngle THEN [mode |-> "garbage", depth |-> 0]
                    ELSE IF c = LBrace THEN [mode |-> "group", depth |-> 1]
                    ELSE [mode |-> "rejected", depth |-> 0]
               [] p.mode = "garbage" ->
                    IF c = Bang THEN [p EXCEPT !.mode = "escape"]
                    ELSE IF c = RAngle
                         THEN [p EXCEPT !.mode = IF p.depth = 0 THEN "closed" ELSE "group"]
                         ELSE p
               [] p.mode = "escape" -> [p EXCEPT !.mode = "garbage"]
               [] p.mode = "group" ->
                    IF c = LAngle THEN [p EXCEPT !.mode = "garbage"]
                    ELSE IF c = LBrace THEN [p EXCEPT !.depth = @ + 1]
                    ELSE IF c = RBrace
                         THEN [mode |-> IF p.depth = 1 THEN "closed" ELSE "group",
                               depth |-> p.depth - 1]
                         ELSE p
               [] OTHER -> p

(* Position i of s opens a garbage span. *)
OpensGarbage(s, i) ==
    /\ Lex(s, i).mode = "garbage"
    /\ Lex(s, i - 1).mode \in {"start", "group"}

(* Position i of s is a character of garbage that is neither an escape   *)
(* marker, nor escaped, nor the closing delimiter.                       *)
IsLiteral(s, i) ==
    /\ Lex(s, i - 1).mode = "garbage"
    /\ Lex(s, i).mode = "garbage"

(* The opening '<' of the span that position n lies in. *)
SpanStart(s, n) ==
    CHOOSE i \in 1..n :
        /\ OpensGarbage(s, i)
        /\ \A j \in (i + 1)..n : ~OpensGarbage(s, j)

(* The literal characters of s at positions a+1..b, in order. *)
RECURSIVE LiteralChars(_, _, _)
LiteralChars(s, a, b) ==
    IF b <= a THEN <<>>
    ELSE LiteralChars(s, a, b - 1) \o (IF IsLiteral(s, b) THEN <<s[b]>> ELSE <<>>)

RECURSIVE Encode(_)
Encode(chars) ==
    IF chars = <<>> THEN <<>> ELSE Utf8(Head(chars)) \o Encode(Tail(chars))

(* ------------------------- a second parse call ----------------------- *)
(* The tests call parse on one text after another.  After a text that    *)
(* parsed to a Group, the next text is that text with one character      *)
(* other than '{', '}' and '<' inserted or removed at a position inside  *)
(* a group and outside garbage; `last` keeps the first call's outcome.   *)

FillerChars == Chars \ {LBrace, RBrace, LAngle}

InsertAt(s, i, c) == SubSeq(s, 1, i) \o <<c>> \o SubSeq(s, i + 1, Len(s))

RemoveAt(s, i) == SubSeq(s, 1, i - 1) \o SubSeq(s, i + 1, Len(s))

FillerVariants(s) ==
    {InsertAt(s, i, c) : i \in {j \in 1..Len(s) : Lex(s, j).mode = "group"},
                         c \in FillerChars}
        \cup
    {RemoveAt(s, i) : i \in {j \in 1..Len(s) : /\ Lex(s, j - 1).mode = "group"
                                               /\ s[j] \in FillerChars}}

Reparse ==
    /\ pc = "done"
    /\ last = None
    /\ result.tag = "Ok"
    /\ result.ast.tag = "Group"
    /\ \E text \in FillerVariants(src) : src' = text
    /\ last' = [tag |-> "Call", src |-> src, result |-> result]
    /\ pos' = 0
    /\ stack' = <<>>
    /\ ret' = None
    /\ result' = None
    /\ pc' = "parse"

NextFiller ==
    \/ Next
    \/ Reparse

SpecFiller == Init /\ [][NextFiller]_vars

(* After a text that parsed successfully, the next text is that text     *)
(* with one more character at its end; `last` keeps the first call's     *)
(* outcome and the position it stopped at.                               *)
Extend ==
    /\ pc = "done"
    /\ last = None
    /\ result.tag = "Ok"
    /\ \E c \in Chars : src' = Append(src, c)
    /\ last' = [tag |-> "Call", src |-> src, result |-> result, pos |-> pos]
    /\ pos' = 0
    /\ stack' = <<>>
    /\ ret' = None
    /\ result' = None
    /\ pc' = "parse"

NextSuffix ==
    \/ Next
    \/ Extend

SpecSuffix == Init /\ [][NextSuffix]_vars

(* ---------------------------- longer texts --------------------------- *)
(* Texts long enough for groups with several children and for deep       *)
(* nesting: every text up to MaxDeepLen over the five characters the     *)
(* parser matches on, and N directly nested groups for N up to MaxNest.  *)

MaxDeepLen == 6

MaxNest == 8

Structural == {LAngle, RAngle, LBrace, RBrace, Bang}

Nested(n) == [i \in 1..(2 * n) |-> IF i <= n THEN LBrace ELSE RBrace]

InputsDeep ==
    UNION {[1..n -> Structural] : n \in 0..MaxDeepLen}
        \cup {Nested(n) : n \in 1..MaxNest}

InitDeep ==
    /\ src \in InputsDeep
    /\ pos = 0
    /\ stack = <<>>
    /\ ret = None
    /\ result = None
    /\ pc = "parse"
    /\ last = None

SpecDeep == InitDeep /\ [][Next]_vars

(* ------------------------------ claims ------------------------------- *)

(* C1: the empty input fails with "expected non-empty string"; an input   *)
(* whose first character is neither '<' nor '{' fails with the            *)
(* unexpected-leading-character error naming that character, whatever    *)
(* follows; an input that starts with '<' or '{' gets neither error; and  *)
(* no AST exists before parse has returned.                               *)
C1_LeadingCharacter ==
    /\ pc # "done" => result = None
    /\ pc = "done" =>
        /\ src = <<>> => result = ParseError_result("expected non-empty string")
        /\ (src # <<>> /\ src[1] \notin {LAngle, LBrace}) =>
               result = ParseError_format("expected '<' or '{', found {:?}", src[1])
        /\ (src # <<>> /\ src[1] \in {LAngle, LBrace}) =>
               \/ result.tag = "Ok"
               \/ /\ result.tag = "Err"
                  /\ result.message.text \notin
                         {"expected non-empty string", "expected '<' or '{', found {:?}"}

C1_Witness ==
    /\ pc = "done"
    /\ Len(src) >= 3
    /\ src[1] = RBrace
    /\ src[2] = LBrace
    /\ src[3] = RBrace
    /\ result.tag = "Err"

(* C2: when the input runs out before the top-level construct is closed, *)
(* parse returns an error and no AST: the dangling-escape error exactly   *)
(* when the last character is an unescaped '!' in garbage, the            *)
(* unterminated-garbage error when in garbage otherwise, the              *)
(* unterminated-group error when in a group outside garbage.              *)
C2_Exhausted ==
    pc = "done" =>
        LET m == Lex(src, Len(src)).mode
        IN  /\ m = "escape" =>
                   result = ParseError_result("unexpected end of string after '!'")
            /\ m = "garbage" => result = ParseError_result("unterminated '<'")
            /\ m = "group" => result = ParseError_result("unterminated '{'")
            /\ (result.tag = "Err" /\ src # <<>> /\ src[1] \in {LAngle, LBrace}) =>
                   m \in {"escape", "garbage", "group"}

C2_Witness ==
    /\ pc = "done"
    /\ src = <<LBrace, LAngle, Bang, RAngle, RBrace>>
    /\ result = ParseError_result("unterminated '<'")

(* C3: in a garbage span an unescaped '!' consumes exactly the character  *)
(* after it, which neither closes the span nor escapes anything, and      *)
(* neither of the two enters the content; the span ends at the first '>'  *)
(* not preceded by an unescaped '!'.                                      *)
C3_EscapeConsumesOne ==
    /\ (stack # <<>> /\ Top.fn = "garbage") =>
           /\ Lex(src, pos).mode = "garbage"
           /\ Top.string = Encode(LiteralChars(src, SpanStart(src, pos), pos))
    /\ (ret.tag = "Ok" /\ ret.ast.tag = "Garbage") =>
           /\ src[pos] = RAngle
           /\ Lex(src, pos - 1).mode = "garbage"
           /\ ret.ast.string =
                  Encode(LiteralChars(src, SpanStart(src, pos - 1), pos - 1))

C3_Witness ==
    /\ src = <<LAngle, 97, Bang, RAngle, RAngle>>
    /\ ret = Ok(Garbage(<<97>>))
    /\ pos = 5

(* C4 as stated: the length garbage_len reports for a parsed garbage span *)
(* is the number of its literal characters.                               *)
C4_CharacterCount ==
    (ret.tag = "Ok" /\ ret.ast.tag = "Garbage") =>
        garbage_len(ret.ast) =
            Len(LiteralChars(src, SpanStart(src, pos - 1), pos - 1))

(* The number of Group nodes of a tree at depth d, the root at depth 1. *)
RECURSIVE GroupsAtDepth(_, _)
GroupsAtDepth(node, d) ==
    IF node.tag # "Group" THEN 0
    ELSE IF d = 1 THEN 1
    ELSE SumSeq([k \in 1..Len(node.children) |->
                    GroupsAtDepth(node.children[k], d - 1)])

(* A tree with its Garbage nodes removed from every group. *)
RECURSIVE WithoutGarbage(_)
WithoutGarbage(node) ==
    IF node.tag # "Group" THEN node
    ELSE LET kept == SelectSeq(node.children, LAMBDA n : n.tag = "Group")
         IN  Group([k \in 1..Len(kept) |-> WithoutGarbage(kept[k])])

(* C5: the score of a parsed input is the sum over its Group nodes of     *)
(* their depth, the top-level group at depth 1; garbage adds nothing, a   *)
(* bare top-level Garbage scores 0.                                       *)
C5_ScoreIsSumOfDepths ==
    (pc = "done" /\ result.tag = "Ok") =>
        /\ score(result.ast) =
               SumSeq([d \in 1..Len(src) |-> d * GroupsAtDepth(result.ast, d)])
        /\ result.ast.tag = "Garbage" => score(result.ast) = 0
        /\ score(result.ast) = score(WithoutGarbage(result.ast))

C5_Witness ==
    /\ pc = "done"
    /\ src = <<LBrace, LBrace, RBrace, RBrace>>
    /\ result.tag = "Ok"
    /\ score(result.ast) = 3

(* The '{' of s[1..n] that open a group: those outside garbage. *)
GroupOpenings(s, n) ==
    {i \in 1..n : s[i] = LBrace /\ Lex(s, i - 1).mode \in {"start", "group"}}

(* C6: between '<' and its '>' the characters '{', '}' and '<' are        *)
(* content: each is appended to the span and changes nothing else, so the *)
(* number of groups of the AST is the number of '{' outside garbage.      *)
C6_BracesInGarbageAreLiteral ==
    /\ [][(InGarbage /\ HasNext /\ Cur \in {LBrace, RBrace, LAngle}) =>
              /\ stack' = ReplaceTop(GarbageFrame(Top.string \o <<Cur>>))
              /\ pos' = pos + 1
              /\ UNCHANGED <<ret, result, pc>>]_vars
    /\ []((pc = "done" /\ result.tag = "Ok") =>
              count_groups(result.ast) = Cardinality(GroupOpenings(src, pos)))

C6_Witness ==
    /\ pc = "done"
    /\ src = <<LBrace, LAngle, LBrace, RAngle, RBrace>>
    /\ result = Ok(Group(<<Garbage(<<LBrace>>)>>))
    /\ count_groups(result.ast) = 1

(* What is left to do: decreases with every step of the parser. *)
Measure ==
    3 * (Len(src) - pos) + 2 * Len(stack)
        + (IF ret # None THEN 1 ELSE 0) + (IF pc # "done" THEN 1 ELSE 0)

(* C7: parse returns on every input; the read position never moves back,  *)
(* an iteration of either loop consumes one character, two only when the *)
(* first is the escape marker of a garbage span, and the number of steps  *)
(* is bounded by the length of the input.                                 *)
C7_Terminates ==
    /\ <>(pc = "done")
    /\ [][/\ src' = src
          /\ pos' \in {pos, pos + 1, pos + 2}
          /\ pos' = pos + 2 => (InGarbage /\ Cur = Bang)
          /\ (pc = "run" /\ stack # <<>> /\ ret = None /\ HasNext) => pos' > pos
          /\ Measure' < Measure]_vars
    /\ [](Measure <= 3 * Len(src) + 1)

C7_Witness ==
    /\ pc = "done"
    /\ src = <<LBrace, LAngle, Bang, RAngle, RAngle>>
    /\ pos = 5
    /\ result = ParseError_result("unterminated '{'")

(* C8: an error returned by a nested garbage or group call is returned    *)
(* unchanged by every enclosing group and by parse: nothing more is read, *)
(* no enclosing group returns its children, the result is that error.     *)
C8_ErrorPropagates ==
    [][ret.tag = "Err" =>
           /\ pos' = pos
           /\ \/ /\ stack # <<>>
                 /\ stack' = Pop
                 /\ ret' = ret
                 /\ result' = result
              \/ /\ stack = <<>>
                 /\ result' = ret
                 /\ pc' = "done"]_vars

C8_Witness ==
    /\ ret = ParseError_result("unterminated '<'")
    /\ Len(stack) = 2
    /\ Top.children # <<>>

RECURSIVE Flatten(_)
Flatten(seqs) == IF seqs = <<>> THEN <<>> ELSE Head(seqs) \o Flatten(Tail(seqs))

(* The numbers of children of the Group nodes at depth d, left to right. *)
RECURSIVE AritiesAtDepth(_, _)
AritiesAtDepth(node, d) ==
    IF node.tag # "Group" THEN <<>>
    ELSE IF d = 1 THEN <<Len(node.children)>>
    ELSE Flatten([k \in 1..Len(node.children) |->
                     AritiesAtDepth(node.children[k], d - 1)])

(* C9: a text that parses to a Group, with one character other than '{',  *)
(* '}' and '<' inserted or removed inside a group and outside garbage,    *)
(* parses to an AST with the same count_groups, the same child arity at   *)
(* every level, the same score and the same garbage_len.                  *)
C9_FillerIndependence ==
    (pc = "done" /\ last # None) =>
        /\ result.tag = "Ok"
        /\ count_groups(result.ast) = count_groups(last.result.ast)
        /\ \A d \in 1..Len(src) :
               AritiesAtDepth(result.ast, d) = AritiesAtDepth(last.result.ast, d)
        /\ score(result.ast) = score(last.result.ast)
        /\ garbage_len(result.ast) = garbage_len(last.result.ast)

C9_Witness ==
    /\ pc = "done"
    /\ last # None
    /\ last.src = <<LBrace, LAngle, 97, RAngle, RBrace>>
    /\ src = <<LBrace, Bang, LAngle, 97, RAngle, RBrace>>
    /\ result = Ok(Group(<<Garbage(<<97>>)>>))

(* C10 as stated: garbage_len of a parsed input is the number of literal  *)
(* characters of all its garbage spans, at any depth.                     *)
C10_SumOfSpans ==
    (pc = "done" /\ result.tag = "Ok") =>
        garbage_len(result.ast) = Cardinality({i \in 1..pos : IsLiteral(src, i)})

(* The nodes of a tree at depth d, the root at depth 1, left to right. *)
RECURSIVE NodesAtDepth(_, _)
NodesAtDepth(node, d) ==
    IF d = 1 THEN <<node>>
    ELSE IF node.tag # "Group" THEN <<>>
    ELSE Flatten([k \in 1..Len(node.children) |->
                     NodesAtDepth(node.children[k], d - 1)])

(* The positions of s[1..n] where a construct at depth d opens: the      *)
(* first character, or a '<' or '{' read in a group at depth d - 1.      *)
OpeningsAtDepth(s, n, d) ==
    {i \in 1..n :
        /\ s[i] \in {LAngle, LBrace}
        /\ \/ d = 1 /\ i = 1
           \/ /\ d > 1
              /\ Lex(s, i - 1).mode = "group"
              /\ Lex(s, i - 1).depth = d - 1}

RECURSIVE Ascending(_)
Ascending(S) ==
    IF S = {} THEN <<>>
    ELSE LET m == CHOOSE x \in S : \A y \in S : x <= y
         IN  <<m>> \o Ascending(S \ {m})

(* The closing '>' of the garbage span that opens at position i. *)
SpanEnd(s, i) ==
    CHOOSE j \in (i + 1)..Len(s) :
        /\ Lex(s, j).mode \notin {"garbage", "escape"}
        /\ \A k \in i..(j - 1) : Lex(s, k).mode \in {"garbage", "escape"}

(* The closing '}' of the group that opens at position i. *)
GroupEnd(s, i) ==
    CHOOSE j \in (i + 1)..Len(s) :
        /\ Lex(s, j).depth < Lex(s, i).depth
        /\ \A k \in i..(j - 1) : Lex(s, k).depth >= Lex(s, i).depth

(* C11: the children of every Group node are its constructs in the order  *)
(* of their opening '<' or '{' in the text, groups and garbage            *)
(* interleaved as in the text, each exactly once: level by level, the k-th *)
(* node is the k-th construct opened at that depth, of the same kind, a    *)
(* garbage with that span's content, a group with as many children as     *)
(* constructs open between its braces.                                    *)
C11_ChildrenInSourceOrder ==
    (pc = "done" /\ result.tag = "Ok") =>
        \A d \in 1..Len(src) :
            LET nodes == NodesAtDepth(result.ast, d)
                opens == Ascending(OpeningsAtDepth(src, pos, d))
            IN  /\ Len(nodes) = Len(opens)
                /\ \A k \in 1..Len(nodes) :
                       LET i == opens[k]
                       IN  IF src[i] = LAngle
                           THEN nodes[k] =
                                    Garbage(Encode(LiteralChars(src, i, SpanEnd(src, i))))
                           ELSE /\ nodes[k].tag = "Group"
                                /\ Len(nodes[k].children) =
                                       Cardinality({c \in OpeningsAtDepth(src, pos, d + 1) :
                                                       i < c /\ c < GroupEnd(src, i)})

C11_Witness ==
    /\ pc = "done"
    /\ src = <<LBrace, LAngle, RAngle, LBrace, RBrace, RBrace>>
    /\ result = Ok(Group(<<Garbage(<<>>), Group(<<>>)>>))

(* C12: N groups nested directly inside one another parse successfully,   *)
(* to N groups with score N*(N+1)/2.                                      *)
C12_NestedGroups ==
    pc = "done" =>
        \A n \in 1..Len(src) :
            src = Nested(n) =>
                /\ result.tag = "Ok"
                /\ pos = 2 * n
                /\ count_groups(result.ast) = n
                /\ score(result.ast) = (n * (n + 1)) \div 2

C12_Witness ==
    /\ pc = "done"
    /\ src = Nested(MaxNest)
    /\ result.tag = "Ok"
    /\ count_groups(result.ast) = MaxNest

(* C13: parse returns Ok as soon as the top-level construct is closed and *)
(* reads nothing after it: a text that parsed successfully, with a        *)
(* character appended, gives the same AST, read up to the same position,  *)
(* and the appended character is never reached.                           *)
C13_SuffixNeverRead ==
    /\ (pc = "done" /\ result.tag = "Ok") =>
           /\ Lex(src, pos).mode = "closed"
           /\ Lex(src, pos - 1).mode # "closed"
    /\ last # None =>
           /\ pos <= Len(last.src)
           /\ pc = "done" => (result = last.result /\ pos = last.pos)

C13_Witness ==
    /\ pc = "done"
    /\ last # None
    /\ last.src = <<LBrace, RBrace>>
    /\ src = <<LBrace, RBrace, LBrace>>
    /\ result = Ok(Group(<<>>))

(* The '}' of s[1..n] that close a group: those outside garbage. *)
GroupClosings(s, n) ==
    {i \in 1..n : s[i] = RBrace /\ Lex(s, i - 1).mode = "group"}

(* '{' minus '}' among the first n characters, outside garbage. *)
Balance(s, n) == Cardinality(GroupOpenings(s, n)) - Cardinality(GroupClosings(s, n))

(* The recursion depth of group: its calls that have not returned. *)
OpenGroups == Cardinality({k \in 1..Len(stack) : stack[k].fn = "group"})

(* C14: while parse has not failed, the number of open group calls is the *)
(* number of '{' minus the number of '}' consumed outside garbage, never  *)
(* negative; a text that starts with '{' gives Ok exactly at the first    *)
(* position where that number is 0, and count_groups is then the number   *)
(* of '{' consumed outside garbage.                                       *)
C14_BraceBalance ==
    /\ Balance(src, pos) >= 0
    /\ (pc = "run" /\ ret.tag # "Err") => OpenGroups = Balance(src, pos)
    /\ (pc = "done" /\ src # <<>> /\ src[1] = LBrace) =>
           /\ result.tag = "Ok" <=> Balance(src, pos) = 0
           /\ \A n \in 1..(pos - 1) : Balance(src, n) > 0
           /\ result.tag = "Ok" =>
                  count_groups(result.ast) = Cardinality(GroupOpenings(src, pos))
           /\ result.tag = "Err" => pos = Len(src)

C14_Witness ==
    /\ pc = "done"
    /\ src = <<LBrace, LBrace, RBrace, RBrace, RBrace, LBrace>>
    /\ pos = 4
    /\ result = Ok(Group(<<Group(<<>>)>>))

====
